---- MODULE Spec2Model ----
(***************************************************************************)
(* Model of scripts/summarize.py: the daily pipeline                       *)
(*   fetch_rss -> summarize_with_gemini -> (summarize_with_anthropic ->    *)
(*   fallback_categorize) -> save_markdown -> send_line_notification,      *)
(* with main()'s except handler (send_error_notification, re-raise).       *)
(*                                                                         *)
(* Encoding of Python values.                                              *)
(*   str of an article     a sequence of Unicode code points               *)
(*   JSON / summary scalar a one-field record tagged with its Python type: *)
(*                         [int |-> 3], [str |-> s], [none |-> TRUE]       *)
(*   dict                  a function whose domain is the set of its keys  *)
(*   list                  a sequence                                      *)
(* Text returned by a generation backend is a sequence of lexemes (see     *)
(* the section on response normalisation).                                 *)
(***************************************************************************)
EXTENDS Integers, Sequences, FiniteSets, TLC

VARIABLES
    pc,            \* the statement main() (or the function under study) is at
    environ,       \* os.environ: which of the four credentials are set
    articles,      \* main's local `articles`
    summary_data,  \* main's local `summary_data`
    producer,      \* which function built summary_data
    trace,         \* log of stage attempts and blocking network calls, in order
    document,      \* the file summaries/<date>.md
    exit_status,   \* process exit status once main has ended
    result_text,   \* a raw backend response text (normalisation study)
    normalized     \* what each remote stage makes of result_text

vars == <<pc, environ, articles, summary_data, producer, trace, document,
          exit_status, result_text, normalized>>

(***************************************************************************)
(* Bounds of the model.                                                    *)
(***************************************************************************)
\* longest feed the pipeline fetches (besides one feed longer than MAX_ARTICLES)
MaxFeedLen == 6
\* largest stride with which an article list walks the article kinds
MaxStride == 3
\* longest raw response text of the normalisation study, in lexemes
MaxTextLen == 4

(***************************************************************************)
(* Program constants.                                                      *)
(***************************************************************************)
MAX_ARTICLES == 30

CATEGORIES ==
    << "Keizai_Keiki",      \* 経済・景気
       "Seiji_Seisaku",     \* 政治・政策
       "Technology_DX",     \* テクノロジー・DX
       "Kokusai_Jousei",    \* 国際情勢
       "Kigyou_Sangyou",    \* 企業・産業
       "Kinyuu_Shijou",     \* 金融・市場
       "Sonota" >>          \* その他

\* number of characters of a summary kept by fallback_categorize
SummaryLimit == 100

\* number of entries of top_topics filled by fallback_categorize
TopTopicsLimit == 5

\* the flat importance fallback_categorize gives every item
FallbackImportance == 3

\* the keyword table of fallback_categorize, in declaration order; every
\* word is the sequence of its code points
keywords ==
    << [category |-> "Keizai_Keiki",
        words |-> << <<71, 68, 80>>,                    \* GDP
                     <<26223, 27671>>,                  \* 景気
                     <<28040, 36027>>,                  \* 消費
                     <<29289, 20385>>,                  \* 物価
                     <<12452, 12531, 12501, 12524>>,    \* インフレ
                     <<12487, 12501, 12524>>,           \* デフレ
                     <<25104, 38263>> >>],              \* 成長
       [category |-> "Seiji_Seisaku",
        words |-> << <<25919, 24220>>,                  \* 政府
                     <<39318, 30456>>,                  \* 首相
                     <<22269, 20250>>,                  \* 国会
                     <<27861, 26696>>,                  \* 法案
                     <<36984, 25369>>,                  \* 選挙
                     <<25919, 20826>>,                  \* 政党
                     <<20869, 38307>> >>],              \* 内閣
       [category |-> "Technology_DX",
        words |-> << <<65, 73>>,                        \* AI
                     <<68, 88>>,                        \* DX
                     <<73, 84>>,                        \* IT
                     <<12487, 12472, 12479, 12523>>,    \* デジタル
                     <<21322, 23566, 20307>>,           \* 半導体
                     <<12477, 12501, 12488, 12454, 12455, 12450>>, \* ソフトウェア
                     <<12463, 12521, 12454, 12489>> >>],           \* クラウド
       [category |-> "Kokusai_Jousei",
        words |-> << <<31859, 22269>>,                  \* 米国
                     <<20013, 22269>>,                  \* 中国
                     <<69, 85>>,                        \* EU
                     <<22806, 20132>>,                  \* 外交
                     <<36031, 26131>>,                  \* 貿易
                     <<22269, 36899>>,                  \* 国連
                     <<25126, 20105>> >>],              \* 戦争
       [category |-> "Kigyou_Sangyou",
        words |-> << <<27770, 31639>>,                  \* 決算
                     <<22770, 19978>>,                  \* 売上
                     <<21033, 30410>>,                  \* 利益
                     <<20107, 26989>>,                  \* 事業
                     <<26032, 35069, 21697>>,           \* 新製品
                     <<77, 38, 65>>,                    \* M&A
                     <<36023, 21454>> >>],              \* 買収
       [category |-> "Kinyuu_Shijou",
        words |-> << <<26666, 20385>>,                  \* 株価
                     <<28858, 26367>>,                  \* 為替
                     <<26085, 37504>>,                  \* 日銀
                     <<37329, 21033>>,                  \* 金利
                     <<25237, 36039>>,                  \* 投資
                     <<20661, 21048>>,                  \* 債券
                     <<20870, 23433>>,                  \* 円安
                     <<20870, 39640>> >>] >>            \* 円高

(***************************************************************************)
(* Python values.                                                          *)
(***************************************************************************)
PyInt(n) == [int |-> n]
PyStr(s) == [str |-> s]
PyNone == [none |-> TRUE]
IsInt(v) == DOMAIN v = {"int"}
IsStr(v) == DOMAIN v = {"str"}

\* d.get(k, default)
Get(d, k, default) == IF k \in DOMAIN d THEN d[k] ELSE default

\* xs[:n]
Take(xs, n) == SubSeq(xs, 1, IF Len(xs) < n THEN Len(xs) ELSE n)

\* word in text, for two str
Contains(text, word) ==
    \E i \in 1..(Len(text) - Len(word) + 1) :
        SubSeq(text, i, i + Len(word) - 1) = word

\* the value of a local that has not been assigned yet
Unset == [unset |-> TRUE]

(***************************************************************************)
(* Inputs: articles.                                                       *)
(***************************************************************************)
Article(title, link, summary) ==
    [title |-> title, link |-> link, published |-> "2025-01-01", summary |-> summary]

\* a summary of SummaryLimit + 1 characters (あ repeated)
LongSummary == [i \in 1..(SummaryLimit + 1) |-> 12354]

ArticleKinds ==
    << Article(<<65, 73>>, "link_ai", <<>>),                          \* "AI"
       Article(<<26666, 20385, 19978, 26119>>, "link_kabuka", <<>>),  \* "株価上昇"
       Article(<<22269, 20250>>, "link_kokkai", <<>>),                \* "国会"
       Article(<<97, 105>>, "link_lower", <<>>),                      \* "ai"
       \* "株価とGDP": a later-declared category's word comes first in the text
       Article(<<26666, 20385, 12392, 71, 68, 80>>, "link_multi", <<>>),
       \* "天気" with summary "日銀が利上げ": the word is in the summary only
       Article(<<22825, 27671>>, "link_summary",
               <<26085, 37504, 12364, 21033, 19978, 12370>>),
       \* "A" with summary "I": a word split across title and summary
       Article(<<65>>, "link_split", <<73>>),
       \* "x" with a summary longer than SummaryLimit
       Article(<<120>>, "link_long", LongSummary) >>

\* the list of n articles that walks ArticleKinds from kind start + 1 in steps
\* of stride (stride 0: n copies of one kind)
Cycle(start, stride, n) ==
    [i \in 1..n |-> ArticleKinds[((start + (i - 1) * stride) % Len(ArticleKinds)) + 1]]

\* the article lists given to the keyword classifier: every length 0..MAX_ARTICLES
ArticleLists ==
    { Cycle(start, stride, n) :
        start \in 0..(Len(ArticleKinds) - 1), stride \in 0..MaxStride, n \in 0..MAX_ARTICLES }

(***************************************************************************)
(* fallback_categorize                                                     *)
(***************************************************************************)
\* matched_category_from without the `break`: the last matching category wins
RECURSIVE matched_category_from_no_break(_, _)
matched_category_from_no_break(text, k) ==
    IF k > Len(keywords) THEN "Sonota"
    ELSE LET later == matched_category_from_no_break(text, k + 1)
         IN  IF later # "Sonota" THEN later
             ELSE IF \E w \in 1..Len(keywords[k].words) : Contains(text, keywords[k].words[w])
                  THEN keywords[k].category
                  ELSE "Sonota"

\* the loop `for category, words in keywords.items(): if any(...): ...; break`
\* from the k-th entry of the table on
RECURSIVE matched_category_from(_, _)
matched_category_from(text, k) ==
    IF k > Len(keywords) THEN "Sonota"
    ELSE IF \E w \in 1..Len(keywords[k].words) : Contains(text, keywords[k].words[w])
         THEN keywords[k].category
         ELSE matched_category_from(text, k + 1)

matched_category(article) ==
    matched_category_from(article.title \o <<32>> \o article.summary, 1)

\* summary[:100] + "..." if len(summary) > 100 else summary
item_summary(summary) ==
    IF Len(summary) > SummaryLimit
    THEN Take(summary, SummaryLimit) \o <<46, 46, 46>>
    ELSE summary

\* categorize_step with `len(top_topics) <= 5` for `len(top_topics) < 5`
categorize_step_off_by_one(acc, i, article) ==
    LET cat == matched_category(article)
        item == [index |-> PyInt(i + 1),
                 title |-> PyStr(article.title),
                 summary |-> PyStr(item_summary(article.summary)),
                 importance |-> PyInt(FallbackImportance)]
        topic == [index |-> PyInt(i + 1),
                  title |-> PyStr(article.title),
                  summary |-> item.summary,
                  importance |-> PyInt(FallbackImportance),
                  category |-> PyStr(cat)]
    IN  [categories |-> [acc.categories EXCEPT ![cat] = Append(@, item)],
         top_topics |-> IF Len(acc.top_topics) <= TopTopicsLimit
                        THEN Append(acc.top_topics, topic)
                        ELSE acc.top_topics]

\* one iteration of `for i, article in enumerate(articles)`; i is 0-based
categorize_step(acc, i, article) ==
    LET cat == matched_category(article)
        item == [index |-> PyInt(i + 1),
                 title |-> PyStr(article.title),
                 summary |-> PyStr(item_summary(article.summary)),
                 importance |-> PyInt(FallbackImportance)]
        topic == [index |-> PyInt(i + 1),
                  title |-> PyStr(article.title),
                  summary |-> item.summary,
                  importance |-> PyInt(FallbackImportance),
                  category |-> PyStr(cat)]
    IN  [categories |-> [acc.categories EXCEPT ![cat] = Append(@, item)],
         top_topics |-> IF Len(acc.top_topics) < TopTopicsLimit
                        THEN Append(acc.top_topics, topic)
                        ELSE acc.top_topics]

RECURSIVE categorize_loop(_, _, _)
categorize_loop(acc, i, arts) ==
    IF i >= Len(arts) THEN acc
    ELSE categorize_loop(categorize_step(acc, i, arts[i + 1]), i + 1, arts)

fallback_categorize(arts) ==
    LET empty == [categories |-> [c \in { CATEGORIES[k] : k \in 1..Len(CATEGORIES) } |-> <<>>],
                  top_topics |-> <<>>]
        filled == categorize_loop(empty, 0, arts)
    IN  [daily_trend |-> [summary |-> PyStr("TREND_NOT_ANALYSED"), keywords |-> <<>>],
         categories |-> filled.categories,
         top_topics |-> filled.top_topics]

(***************************************************************************)
(* Backend response text.                                                  *)
(*                                                                         *)
(* A response text is a sequence of lexemes:                               *)
(*   "F"  the three-backtick fence marker                                  *)
(*   "j"  the word json (so "F","j" is the marker ```json)                 *)
(*   "n"  a line feed: whitespace for str.strip and for JSON, and a        *)
(*        control character for the pattern [\x00-\x1f\x7f]                *)
(*   "c"  a control character that is no whitespace (such as \x01)         *)
(*   "{" "}" ","  the JSON punctuation                                     *)
(*   "N"  the JSON text [] : a value that is no object                     *)
(*   a member lexeme: the text of one `"key": value` pair of the           *)
(*        summary object, free of control characters, except               *)
(*   "DtNl" the text of member "Dt" with a raw line feed inside the        *)
(*        string literal of its summary                                    *)
(***************************************************************************)
BackendItem(i, importance) ==
    [index |-> i,
     title |-> PyStr(<<65, 73>>),
     summary |-> PyStr(<<120>>),
     importance |-> importance]

BackendTopic(i, importance) ==
    [index |-> i,
     title |-> PyStr(<<65, 73>>),
     summary |-> PyStr(<<120>>),
     importance |-> importance,
     category |-> PyStr("Technology_DX")]

MemberLexemes ==
    { "Dt", "DtNull", "Cat7", "Cat1", "Top1", "Top6", "TopNullIdx", "TopImp9" }

\* the key of a member lexeme
MemberKey(m) ==
    CASE m \in { "Dt", "DtNull" } -> "daily_trend"
      [] m \in { "Cat7", "Cat1" } -> "categories"
      [] OTHER -> "top_topics"

\* the value json.loads gives a member lexeme
MemberValue(m) ==
    CASE m = "Dt" ->
            [summary |-> PyStr("TREND_FROM_BACKEND"), keywords |-> << PyStr("KEYWORD") >>]
      [] m = "DtNull" ->
            [summary |-> PyNone, keywords |-> <<>>]
      [] m = "Cat7" ->
            [c \in { CATEGORIES[k] : k \in 1..Len(CATEGORIES) } |->
                IF c = "Technology_DX" THEN << BackendItem(PyInt(1), PyInt(4)) >> ELSE <<>>]
      [] m = "Cat1" ->
            [c \in { "Technology_DX" } |-> << BackendItem(PyInt(1), PyInt(4)) >>]
      [] m = "Top1" ->
            << BackendTopic(PyInt(1), PyInt(5)) >>
      [] m = "Top6" ->
            [i \in 1..(TopTopicsLimit + 1) |-> BackendTopic(PyInt(i), PyInt(5))]
      [] m = "TopNullIdx" ->
            << BackendTopic(PyNone, PyInt(5)) >>
      [] m = "TopImp9" ->
            << BackendTopic(PyInt(1), PyInt(9)) >>

\* the response texts the backends of the pipeline return
ResponseTexts ==
    { << "{", "Dt", ",", "Cat7", ",", "Top1", "}" >>,
      << "F", "j", "n", "{", "Dt", ",", "Cat7", ",", "Top1", "}", "n", "F" >>,
      << "F", "n", "{", "Cat7", "}", "n", "F" >>,
      << "{", "}" >>,
      << "{", "c", "}" >>,
      << "{", "DtNl", ",", "Top1", "}" >>,
      << "j" >>,
      << "N" >>,
      << "{", "Dt", ",", "Cat1", ",", "Top6", "}" >>,
      << "{", "DtNull", ",", "Cat7", "}" >>,
      << "{", "Dt", ",", "Cat7", ",", "TopNullIdx", "}" >>,
      << "{", "Dt", ",", "Cat7", ",", "TopImp9", "}" >> }

\* the lexemes of the normalisation study
NormAlphabet == { "F", "j", "{", "}", ",", "n", "c", "N", "Dt", "DtNl", "Top1" }

\* every text of at most MaxTextLen lexemes
NormTexts == UNION { [1..k -> NormAlphabet] : k \in 0..MaxTextLen }

(***************************************************************************)
(* Response normalisation.                                                 *)
(***************************************************************************)
\* the positions where sep occurs in text
FencePositions(text) == { i \in 1..Len(text) : text[i] = "F" }
JsonFencePositions(text) ==
    { i \in 1..(Len(text) - 1) : text[i] = "F" /\ text[i + 1] = "j" }

Min(S) == CHOOSE x \in S : \A y \in S : x <= y

\* text.split("```")[0]
BeforeFence(text) ==
    IF FencePositions(text) = {} THEN text
    ELSE SubSeq(text, 1, Min(FencePositions(text)) - 1)

\* the `if "```json" in result_text: ... elif "```" in result_text: ...` block
ExtractFenced(text) ==
    IF JsonFencePositions(text) # {}
    THEN \* text.split("```json")[1].split("```")[0]
         BeforeFence(SubSeq(text, Min(JsonFencePositions(text)) + 2, Len(text)))
    ELSE IF FencePositions(text) # {}
    THEN \* text.split("```")[1].split("```")[0]
         BeforeFence(SubSeq(text, Min(FencePositions(text)) + 1, Len(text)))
    ELSE text

\* text.strip()
strip(text) ==
    LET keep == { i \in 1..Len(text) : text[i] # "n" }
    IN  IF keep = {} THEN <<>>
        ELSE SubSeq(text, Min(keep), CHOOSE x \in keep : \A y \in keep : y <= x)

\* re.sub(r'[\x00-\x1f\x7f]', '', text)
IsControl(x) == x \in { "n", "c" }
NotControl(x) == ~IsControl(x)
RemoveControl(text) ==
    LET kept == SelectSeq(text, NotControl)
    IN  [i \in 1..Len(kept) |-> IF kept[i] = "DtNl" THEN "Dt" ELSE kept[i]]

\* json.loads(text): [ok |-> FALSE] stands for JSONDecodeError
IsJsonWhitespace(x) == x = "n"
NotJsonWhitespace(x) == ~IsJsonWhitespace(x)
json_loads(text) ==
    LET t == SelectSeq(text, NotJsonWhitespace)
        inner == SubSeq(t, 2, Len(t) - 1)
        members == { i \in 1..Len(inner) : i % 2 = 1 }
        wellFormed ==
            /\ Len(t) >= 2
            /\ t[1] = "{"
            /\ t[Len(t)] = "}"
            /\ \/ inner = <<>>
               \/ /\ Len(inner) % 2 = 1
                  /\ \A i \in 1..Len(inner) :
                        IF i % 2 = 1 THEN inner[i] \in MemberLexemes ELSE inner[i] = ","
        keys == { MemberKey(inner[i]) : i \in members }
        \* a key given twice keeps its last value
        last(k) == CHOOSE i \in members :
                      /\ MemberKey(inner[i]) = k
                      /\ \A j \in members : MemberKey(inner[j]) = k => j <= i
    IN  IF t = << "N" >> THEN [ok |-> TRUE, isdict |-> FALSE, value |-> <<>>]
        ELSE IF wellFormed
        THEN [ok |-> TRUE, isdict |-> TRUE,
              value |-> [k \in keys |-> MemberValue(inner[last(k)])]]
        ELSE [ok |-> FALSE]

\* repair_daily_trend without the repair
repair_daily_trend_skipped(result) == result

\* if "daily_trend" not in result: result["daily_trend"] = {...}
repair_daily_trend(result) ==
    IF "daily_trend" \in DOMAIN result THEN result
    ELSE [k \in DOMAIN result \cup { "daily_trend" } |->
            IF k = "daily_trend"
            THEN [summary |-> PyStr("TREND_NOT_OBTAINED"), keywords |-> <<>>]
            ELSE result[k]]

\* what the try block makes of a parsed text: the summary, or the exception
after_loads(parsed) ==
    IF ~parsed.ok THEN [status |-> "JSONDecodeError"]
    ELSE IF ~parsed.isdict
    THEN \* result["daily_trend"] = ... on a list: TypeError
         [status |-> "Exception"]
    ELSE [status |-> "ok", value |-> repair_daily_trend(parsed.value)]

\* summarize_with_gemini, from result_text = response.text to return result
gemini_normalize(text) ==
    after_loads(json_loads(strip(ExtractFenced(text))))

\* summarize_with_anthropic, from result_text = response.content[0].text on
anthropic_normalize(text) ==
    after_loads(json_loads(RemoveControl(strip(ExtractFenced(text)))))

(***************************************************************************)
(* Renderers: when they raise.                                             *)
(***************************************************************************)
\* "★" * topic.get("importance", 3) needs an int
StarsRaise(entry) == ~IsInt(Get(entry, "importance", PyInt(FallbackImportance)))

\* save_markdown raises on a summary it cannot render ("\n".join(lines) needs
\* every line to be a str)
RenderRaises(data) ==
    LET daily_trend == Get(data, "daily_trend", <<>>)
        top_topics == Take(Get(data, "top_topics", <<>>), TopTopicsLimit)
        categories == Get(data, "categories", <<>>)
    IN  \/ ~IsStr(Get(daily_trend, "summary", PyStr("")))
        \/ \E i \in 1..Len(top_topics) : StarsRaise(top_topics[i])
        \/ \E c \in DOMAIN categories :
              \E i \in 1..Len(categories[c]) : StarsRaise(categories[c][i])

\* send_line_notification raises while it builds the message
\* (idx = topic.get("index", i) - 1 needs a number)
FormatRaises(data) ==
    LET daily_trend == Get(data, "daily_trend", <<>>)
        top_topics == Take(Get(data, "top_topics", <<>>), TopTopicsLimit)
    IN  \/ ~IsStr(Get(daily_trend, "summary", PyStr("")))
        \/ \E i \in 1..Len(top_topics) :
              \/ StarsRaise(top_topics[i])
              \/ ~IsInt(Get(top_topics[i], "index", PyInt(i)))

(***************************************************************************)
(* Actions.                                                                *)
(***************************************************************************)
\* an entry of the log: a function that ended (op is its name) or a blocking
\* network call (op is the call); text is the response text a backend returned
Event(op, outcome) == [op |-> op, outcome |-> outcome, text |-> <<>>]
ReplyEvent(op, reply) ==
    [op |-> op, outcome |-> IF reply.raised THEN "raised" ELSE "returned", text |-> reply.text]
Log(events) == trace' = trace \o events

\* the feeds feedparser.parse returns: 0..MaxFeedLen entries, or more than
\* MAX_ARTICLES; bozo says the feed did not parse cleanly
Feeds ==
    { [bozo |-> b, entries |-> Cycle(0, 1, n)] :
        b \in BOOLEAN, n \in (0..MaxFeedLen) \cup { MAX_ARTICLES + 1 } }

\* fetch_rss()
FetchRss ==
    /\ pc = "fetch_rss"
    /\ \E feed \in Feeds :
          IF feed.bozo /\ feed.entries = <<>>
          THEN /\ Log(<< Event("feedparser.parse", "raised") >>)
               /\ pc' = "except"
               /\ UNCHANGED articles
          ELSE /\ Log(<< Event("feedparser.parse", "returned") >>)
               /\ articles' = Take(feed.entries, MAX_ARTICLES)
               /\ pc' = "summarize_with_gemini"
    /\ UNCHANGED <<environ, summary_data, producer, document, exit_status,
                   result_text, normalized>>

\* what a generation backend does with a request: it raises, or returns text
BackendReplies == { [raised |-> TRUE, text |-> <<>>] }
                  \cup { [raised |-> FALSE, text |-> t] : t \in ResponseTexts }

\* summarize_with_gemini that calls the backend a second time when the first
\* call raised
SummarizeWithGemini_Retries ==
    /\ pc = "summarize_with_gemini"
    /\ IF ~environ.GOOGLE_API_KEY
       THEN /\ Log(<< Event("summarize_with_gemini", "ValueError") >>)
            /\ pc' = "except"
            /\ UNCHANGED <<summary_data, producer>>
       ELSE \E first \in BackendReplies, reply \in BackendReplies :
            LET got == IF reply.raised THEN [status |-> "Exception"]
                       ELSE gemini_normalize(reply.text)
            IN  /\ Log((IF first.raised THEN << ReplyEvent("generate_content", first) >> ELSE <<>>)
                       \o << ReplyEvent("generate_content", reply),
                             Event("summarize_with_gemini", got.status) >>)
                /\ IF got.status = "ok"
                   THEN /\ summary_data' = got.value
                        /\ producer' = "summarize_with_gemini"
                        /\ pc' = "save_markdown"
                   ELSE /\ pc' = "summarize_with_anthropic"
                        /\ UNCHANGED <<summary_data, producer>>
    /\ UNCHANGED <<environ, articles, document, exit_status, result_text, normalized>>

\* summarize_with_gemini(articles)
SummarizeWithGemini ==
    /\ pc = "summarize_with_gemini"
    /\ IF ~environ.GOOGLE_API_KEY
       THEN \* raise ValueError, before the try block
            /\ Log(<< Event("summarize_with_gemini", "ValueError") >>)
            /\ pc' = "except"
            /\ UNCHANGED <<summary_data, producer>>
       ELSE \E reply \in BackendReplies :
            LET got == IF reply.raised THEN [status |-> "Exception"]
                       ELSE gemini_normalize(reply.text)
            IN  /\ Log(<< ReplyEvent("generate_content", reply),
                          Event("summarize_with_gemini", got.status) >>)
                /\ IF got.status = "ok"
                   THEN /\ summary_data' = got.value
                        /\ producer' = "summarize_with_gemini"
                        /\ pc' = "save_markdown"
                   ELSE /\ pc' = "summarize_with_anthropic"
                        /\ UNCHANGED <<summary_data, producer>>
    /\ UNCHANGED <<environ, articles, document, exit_status, result_text, normalized>>

\* summarize_with_anthropic that goes on to fallback_categorize even when its
\* own result parsed
SummarizeWithAnthropic_FallsThrough ==
    /\ pc = "summarize_with_anthropic"
    /\ IF ~environ.ANTHROPIC_API_KEY
       THEN /\ Log(<< Event("summarize_with_anthropic", "no_credential") >>)
            /\ pc' = "fallback_categorize"
            /\ UNCHANGED <<summary_data, producer>>
       ELSE \E reply \in BackendReplies :
            LET got == IF reply.raised THEN [status |-> "Exception"]
                       ELSE anthropic_normalize(reply.text)
            IN  /\ Log(<< ReplyEvent("messages.create", reply),
                          Event("summarize_with_anthropic", got.status) >>)
                /\ pc' = "fallback_categorize"
                /\ UNCHANGED <<summary_data, producer>>
    /\ UNCHANGED <<environ, articles, document, exit_status, result_text, normalized>>

\* summarize_with_anthropic(articles)
SummarizeWithAnthropic ==
    /\ pc = "summarize_with_anthropic"
    /\ IF ~environ.ANTHROPIC_API_KEY
       THEN \* return fallback_categorize(articles)
            /\ Log(<< Event("summarize_with_anthropic", "no_credential") >>)
            /\ pc' = "fallback_categorize"
            /\ UNCHANGED <<summary_data, producer>>
       ELSE \E reply \in BackendReplies :
            LET got == IF reply.raised THEN [status |-> "Exception"]
                       ELSE anthropic_normalize(reply.text)
            IN  /\ Log(<< ReplyEvent("messages.create", reply),
                          Event("summarize_with_anthropic", got.status) >>)
                /\ IF got.status = "ok"
                   THEN /\ summary_data' = got.value
                        /\ producer' = "summarize_with_anthropic"
                        /\ pc' = "save_markdown"
                   ELSE /\ pc' = "fallback_categorize"
                        /\ UNCHANGED <<summary_data, producer>>
    /\ UNCHANGED <<environ, articles, document, exit_status, result_text, normalized>>

\* fallback_categorize(articles), as called from summarize_with_anthropic
FallbackCategorize ==
    /\ pc = "fallback_categorize"
    /\ summary_data' = fallback_categorize(articles)
    /\ producer' = "fallback_categorize"
    /\ Log(<< Event("fallback_categorize", "returned") >>)
    /\ pc' = "save_markdown"
    /\ UNCHANGED <<environ, articles, document, exit_status, result_text, normalized>>

\* save_markdown(articles, summary_data); the write itself may fail (OSError)
SaveMarkdown ==
    /\ pc = "save_markdown"
    /\ \E oserror \in BOOLEAN :
          IF RenderRaises(summary_data) \/ oserror
          THEN /\ Log(<< Event("save_markdown", "raised") >>)
               /\ pc' = "except"
               /\ UNCHANGED document
          ELSE /\ Log(<< Event("save_markdown", "returned") >>)
               /\ document' = [article_count |-> Len(articles), summary |-> summary_data]
               /\ pc' = "send_line_notification"
    /\ UNCHANGED <<environ, articles, summary_data, producer, exit_status,
                   result_text, normalized>>

HasLineCredentials == environ.LINE_CHANNEL_ACCESS_TOKEN /\ environ.LINE_USER_ID

\* what requests.post does: an HTTP status, or an exception
PostReplies == { "200", "500", "raised" }

\* send_line_notification without the try block around requests.post: an
\* exception of the transport propagates to main
SendLineNotification_NoTry ==
    /\ pc = "send_line_notification"
    /\ IF ~HasLineCredentials
       THEN /\ Log(<< Event("send_line_notification", "no_credentials") >>)
            /\ pc' = "done"
            /\ exit_status' = 0
       ELSE IF FormatRaises(summary_data)
       THEN /\ Log(<< Event("send_line_notification", "raised") >>)
            /\ pc' = "except"
            /\ UNCHANGED exit_status
       ELSE \E reply \in PostReplies :
            IF reply = "raised"
            THEN /\ Log(<< Event("requests.post", reply),
                           Event("send_line_notification", "raised") >>)
                 /\ pc' = "except"
                 /\ UNCHANGED exit_status
            ELSE /\ Log(<< Event("requests.post", reply),
                           Event("send_line_notification",
                                 IF reply = "200" THEN "True" ELSE "False") >>)
                 /\ pc' = "done"
                 /\ exit_status' = 0
    /\ UNCHANGED <<environ, articles, summary_data, producer, document,
                   result_text, normalized>>

\* send_line_notification(summary_data, articles, len(articles)), and the end of
\* main's try block after it
SendLineNotification ==
    /\ pc = "send_line_notification"
    /\ IF ~HasLineCredentials
       THEN \* return False
            /\ Log(<< Event("send_line_notification", "no_credentials") >>)
            /\ pc' = "done"
            /\ exit_status' = 0
       ELSE IF FormatRaises(summary_data)
       THEN /\ Log(<< Event("send_line_notification", "raised") >>)
            /\ pc' = "except"
            /\ UNCHANGED exit_status
       ELSE \E reply \in PostReplies :
            /\ Log(<< Event("requests.post", reply),
                      Event("send_line_notification",
                            IF reply = "200" THEN "True" ELSE "False") >>)
            /\ pc' = "done"
            /\ exit_status' = 0
    /\ UNCHANGED <<environ, articles, summary_data, producer, document,
                   result_text, normalized>>

\* main's except handler without the final `raise`
SendErrorNotification_NoRaise ==
    /\ pc = "except"
    /\ IF ~HasLineCredentials
       THEN Log(<< Event("send_error_notification", "no_credentials") >>)
       ELSE \E reply \in PostReplies :
            Log(<< Event("requests.post", reply),
                   Event("send_error_notification", "returned") >>)
    /\ pc' = "done"
    /\ exit_status' = 0
    /\ UNCHANGED <<environ, articles, summary_data, producer, document,
                   result_text, normalized>>

\* main's `except Exception`: send_error_notification(str(e)), then raise
SendErrorNotification ==
    /\ pc = "except"
    /\ IF ~HasLineCredentials
       THEN Log(<< Event("send_error_notification", "no_credentials") >>)
       ELSE \E reply \in PostReplies :
            Log(<< Event("requests.post", reply),
                   Event("send_error_notification", "returned") >>)
    /\ pc' = "exited"
    /\ exit_status' = 1
    /\ UNCHANGED <<environ, articles, summary_data, producer, document,
                   result_text, normalized>>

\* both remote stages' treatment of one raw response text
NormalizeResponse ==
    /\ pc = "normalize"
    /\ normalized' = [gemini |-> gemini_normalize(result_text),
                      anthropic |-> anthropic_normalize(result_text)]
    /\ pc' = "normalized"
    /\ UNCHANGED <<environ, articles, summary_data, producer, trace, document,
                   exit_status, result_text>>

(***************************************************************************)
(* The pipeline: one run of main() under any environment.                  *)
(***************************************************************************)
Environments ==
    [GOOGLE_API_KEY : BOOLEAN, ANTHROPIC_API_KEY : BOOLEAN,
     LINE_CHANNEL_ACCESS_TOKEN : BOOLEAN, LINE_USER_ID : BOOLEAN]

Init ==
    /\ pc = "fetch_rss"
    /\ environ \in Environments
    /\ articles = <<>>
    /\ summary_data = Unset
    /\ producer = "none"
    /\ trace = <<>>
    /\ document = Unset
    /\ exit_status = -1
    /\ result_text = <<>>
    /\ normalized = Unset

Next ==
    \/ FetchRss
    \/ SummarizeWithGemini
    \/ SummarizeWithAnthropic
    \/ FallbackCategorize
    \/ SaveMarkdown
    \/ SendLineNotification
    \/ SendErrorNotification

Spec == Init /\ [][Next]_vars

(***************************************************************************)
(* The keyword classifier on its own: any article list of 0..MAX_ARTICLES  *)
(* articles.                                                               *)
(***************************************************************************)
InitKw ==
    /\ pc = "fallback_categorize"
    /\ environ \in { e \in Environments : ~e.GOOGLE_API_KEY /\ ~e.ANTHROPIC_API_KEY
                                          /\ ~e.LINE_CHANNEL_ACCESS_TOKEN /\ ~e.LINE_USER_ID }
    /\ articles \in ArticleLists
    /\ summary_data = Unset
    /\ producer = "none"
    /\ trace = <<>>
    /\ document = Unset
    /\ exit_status = -1
    /\ result_text = <<>>
    /\ normalized = Unset

NextKw == FallbackCategorize

SpecKw == InitKw /\ [][NextKw]_vars

(***************************************************************************)
(* The two remote stages on the same raw response text.                    *)
(***************************************************************************)
InitNorm ==
    /\ pc = "normalize"
    /\ environ \in { e \in Environments : e.GOOGLE_API_KEY /\ e.ANTHROPIC_API_KEY
                                          /\ ~e.LINE_CHANNEL_ACCESS_TOKEN /\ ~e.LINE_USER_ID }
    /\ articles = <<>>
    /\ summary_data = Unset
    /\ producer = "none"
    /\ trace = <<>>
    /\ document = Unset
    /\ exit_status = -1
    /\ result_text \in NormTexts
    /\ normalized = Unset

NextNorm == NormalizeResponse

SpecNorm == InitNorm /\ [][NextNorm]_vars

(***************************************************************************)
(* Reading the log.                                                        *)
(***************************************************************************)
Positions(op) == { i \in 1..Len(trace) : trace[i].op = op }
Ended(op) == Positions(op) # {}
\* the outcome with which function op ended (it ends at most once in a run)
OutcomeOf(op) == trace[CHOOSE i \in Positions(op) : TRUE].outcome
\* the response text the backend call op returned
TextOf(op) == trace[CHOOSE i \in Positions(op) : TRUE].text

StageFailures == { "JSONDecodeError", "Exception", "no_credential", "ValueError" }
GeminiFailed == Ended("summarize_with_gemini") /\ OutcomeOf("summarize_with_gemini") \in StageFailures
AnthropicFailed ==
    Ended("summarize_with_anthropic") /\ OutcomeOf("summarize_with_anthropic") \in StageFailures

\* the chain has been entered and control is back in main
ChainLeft ==
    /\ Ended("summarize_with_gemini")
    /\ pc \notin { "summarize_with_anthropic", "fallback_categorize" }

CategorySet == { CATEGORIES[k] : k \in 1..Len(CATEGORIES) }

(***************************************************************************)
(* Claims.                                                                 *)
(***************************************************************************)

\* C1: the summarization chain never raises. Once summarize_with_gemini has
\* been entered and control is back in main, main holds a summary value
\* (whether each remote stage lacked its credential, saw its backend raise,
\* got unparseable text or succeeded), and when both remote stages failed that
\* value is the keyword classifier's result.
C1_ChainNeverRaises ==
    ChainLeft =>
        /\ summary_data # Unset
        /\ (GeminiFailed /\ AnthropicFailed) => summary_data = fallback_categorize(articles)

\* C2: the chain takes the first stage that succeeds in the order primary,
\* secondary, keyword classifier. The secondary stage runs only after the
\* primary failed, the keyword classifier only after both failed, and the value
\* main receives is the output of the stage that succeeded: the stage's own
\* normalisation of the text its backend returned, or the keyword classifier's
\* result. In particular, a primary backend that raises followed by a secondary
\* that returns a parseable object gives the secondary's normalised output.
C2_FirstSuccessInOrder ==
    /\ (Ended("summarize_with_anthropic") \/ pc = "summarize_with_anthropic") => GeminiFailed
    /\ (Ended("fallback_categorize") \/ pc = "fallback_categorize") =>
            GeminiFailed /\ AnthropicFailed
    /\ producer = "summarize_with_gemini" =>
            /\ ~Ended("summarize_with_anthropic") /\ ~Ended("fallback_categorize")
            /\ gemini_normalize(TextOf("generate_content")).status = "ok"
            /\ summary_data = gemini_normalize(TextOf("generate_content")).value
    /\ producer = "summarize_with_anthropic" =>
            /\ ~Ended("fallback_categorize")
            /\ anthropic_normalize(TextOf("messages.create")).status = "ok"
            /\ summary_data = anthropic_normalize(TextOf("messages.create")).value
    /\ producer = "fallback_categorize" => summary_data = fallback_categorize(articles)
    /\ ( /\ Ended("generate_content")
         /\ trace[CHOOSE i \in Positions("generate_content") : TRUE].outcome = "raised"
         /\ Ended("messages.create")
         /\ trace[CHOOSE i \in Positions("messages.create") : TRUE].outcome = "returned"
         /\ anthropic_normalize(TextOf("messages.create")).status = "ok" ) =>
            /\ producer = "summarize_with_anthropic"
            /\ summary_data = anthropic_normalize(TextOf("messages.create")).value
            /\ summary_data # fallback_categorize(articles)

\* C2 witness: the primary backend raised, the secondary returned a parseable
\* object, and main holds the secondary's summary.
C2_Witness ==
    /\ pc = "save_markdown"
    /\ Ended("generate_content")
    /\ trace[CHOOSE i \in Positions("generate_content") : TRUE].outcome = "raised"
    /\ producer = "summarize_with_anthropic"
    /\ Len(articles) > 0

\* C3: an absent credential is handled like a backend failure at both remote
\* stages. Without GOOGLE_API_KEY the chain goes on to the secondary stage,
\* without ANTHROPIC_API_KEY it goes on to the keyword classifier, and in
\* neither case does the failure reach main.
C3_AbsentCredentialAdvances ==
    /\ (~environ.GOOGLE_API_KEY /\ Ended("summarize_with_gemini")) =>
            /\ pc = "summarize_with_anthropic" \/ Ended("summarize_with_anthropic")
            /\ ChainLeft => summary_data # Unset
    /\ (~environ.ANTHROPIC_API_KEY /\ Ended("summarize_with_anthropic")) =>
            /\ pc = "fallback_categorize" \/ Ended("fallback_categorize")
            /\ ChainLeft => summary_data # Unset

\* the notification step ended without delivering: credentials absent, an HTTP
\* status other than 200, or the transport raised
NotificationUndelivered ==
    /\ Ended("save_markdown")
    /\ OutcomeOf("save_markdown") = "returned"
    /\ pc # "send_line_notification"
    /\ \/ ~HasLineCredentials
       \/ /\ ~FormatRaises(summary_data)
          /\ Ended("requests.post")
          /\ trace[Min(Positions("requests.post"))].outcome # "200"

\* C4: a notification that is not delivered never fails the run. When fetch,
\* summarize and save_markdown succeeded and the notification step did not
\* deliver, the run ends with exit status 0, no error notification is attempted,
\* and the document, written before the notification step began, still holds
\* the summary.
C4_NotificationFailureIsNotFatal ==
    NotificationUndelivered =>
        /\ pc = "done"
        /\ exit_status = 0
        /\ ~Ended("send_error_notification")
        /\ document = [article_count |-> Len(articles), summary |-> summary_data]
        /\ \E i \in Positions("save_markdown") :
              /\ trace[i].outcome = "returned"
              /\ \A j \in Positions("send_line_notification") \cup Positions("requests.post") : i < j

\* C4 witness: the transport raised while posting the summary and the run
\* ended successfully with the document written.
C4_Witness ==
    /\ pc = "done"
    /\ \E i \in Positions("requests.post") : trace[i].outcome = "raised"
    /\ document # Unset

\* the step of main's sequence a logged function belongs to
\* (1 fetch, 2 summarize, 3 render-document, 4 notify), 0 for other entries
StepOf(op) ==
    CASE op = "feedparser.parse" -> 1
      [] op \in { "summarize_with_gemini", "summarize_with_anthropic", "fallback_categorize" } -> 2
      [] op = "save_markdown" -> 3
      [] op = "send_line_notification" -> 4
      [] OTHER -> 0

Steps == { i \in 1..Len(trace) : StepOf(trace[i].op) > 0 }
Raised(i) == trace[i].outcome \in { "raised", "ValueError" }

\* C5: main runs fetch, summarize, render-document, notify in this order; when
\* one of them raises no later step runs, send_error_notification is attempted
\* exactly once and the run ends with a non-zero exit status; a feed failure
\* ends the run before any summary is computed or any document written.
C5_DriverAbortsOnFailure ==
    /\ \A i, j \in Steps : i < j => StepOf(trace[i].op) <= StepOf(trace[j].op)
    /\ \A i \in Steps : Raised(i) =>
            /\ \A j \in Steps : j <= i
            /\ pc \in { "except", "exited" }
            /\ exit_status # 0
    /\ pc = "except" => ~Ended("send_error_notification") /\ \E i \in Steps : Raised(i)
    /\ pc = "exited" =>
            /\ Cardinality(Positions("send_error_notification")) = 1
            /\ exit_status = 1
            /\ \E i \in Steps : Raised(i)
    /\ pc = "done" => ~Ended("send_error_notification") /\ \A i \in Steps : ~Raised(i)
    /\ (Ended("feedparser.parse") /\ OutcomeOf("feedparser.parse") = "raised") =>
            /\ summary_data = Unset
            /\ document = Unset
            /\ \A i \in Steps : StepOf(trace[i].op) = 1

\* C5 witness: save_markdown raised after a summary was computed, the error
\* notification was posted and the run ended with a failure.
C5_Witness ==
    /\ pc = "exited"
    /\ Ended("save_markdown")
    /\ OutcomeOf("save_markdown") = "raised"
    /\ Ended("requests.post")

Smaller(a, b) == IF a < b THEN a ELSE b

\* C6: for an article list of n articles, 0 <= n <= MAX_ARTICLES, the keyword
\* classifier returns categories with exactly the 7 fixed labels as keys and
\* top_topics made of the first min(n, 5) articles in their original order.
C6_KeywordClassifierShape ==
    (producer = "fallback_categorize" /\ Len(articles) <= MAX_ARTICLES) =>
        /\ DOMAIN summary_data.categories = CategorySet
        /\ Cardinality(DOMAIN summary_data.categories) = 7
        /\ Len(summary_data.top_topics) = Smaller(Len(articles), 5)
        /\ \A j \in 1..Len(summary_data.top_topics) :
              /\ summary_data.top_topics[j].index = PyInt(j)
              /\ summary_data.top_topics[j].title = PyStr(articles[j].title)

\* C6 witness: the keyword classifier ran on MAX_ARTICLES articles.
C6_Witness ==
    /\ producer = "fallback_categorize"
    /\ Len(articles) = MAX_ARTICLES
    /\ Len(summary_data.top_topics) = 5

\* the categories, by position in the keyword table, one of whose words occurs
\* in the article's text (title, a space, summary)
MatchingEntries(article) ==
    { k \in 1..Len(keywords) :
        \E w \in 1..Len(keywords[k].words) :
            Contains(article.title \o <<32>> \o article.summary, keywords[k].words[w]) }

\* the category the claim gives an article
ClaimedCategory(article) ==
    IF MatchingEntries(article) = {} THEN "Sonota"
    ELSE keywords[Min(MatchingEntries(article))].category

\* the categories that hold an item for article number i
CategoriesHolding(i) ==
    { c \in DOMAIN summary_data.categories :
        \E x \in 1..Len(summary_data.categories[c]) :
            summary_data.categories[c][x].index = PyInt(i) }

\* C7: the keyword classifier puts every article in exactly one category: the
\* first one, in the declaration order of the keyword table, one of whose words
\* is a case-sensitive substring of the article's text, and the catch-all
\* category when no word of any category occurs.
C7_FirstMatchingCategory ==
    producer = "fallback_categorize" =>
        /\ \A i \in 1..Len(articles) : CategoriesHolding(i) = { ClaimedCategory(articles[i]) }
        /\ \A c \in DOMAIN summary_data.categories :
              \A x, y \in 1..Len(summary_data.categories[c]) :
                  x # y => summary_data.categories[c][x].index # summary_data.categories[c][y].index

\* C7 witness: articles titled "AI", "株価上昇", "国会" (in this order) are put
\* in Technology_DX, Kinyuu_Shijou and Seiji_Seisaku, and an article whose text
\* has words of two categories is in the list as well.
C7_Witness ==
    /\ producer = "fallback_categorize"
    /\ Len(articles) >= 5
    /\ articles[1].title = <<65, 73>>
    /\ articles[2].title = <<26666, 20385, 19978, 26119>>
    /\ articles[3].title = <<22269, 20250>>
    /\ CategoriesHolding(1) = { "Technology_DX" }
    /\ CategoriesHolding(2) = { "Kinyuu_Shijou" }
    /\ CategoriesHolding(3) = { "Seiji_Seisaku" }
    /\ Cardinality(MatchingEntries(articles[5])) = 2

NetworkOps == { "feedparser.parse", "generate_content", "messages.create", "requests.post" }
BackendOps == { "generate_content", "messages.create" }
NetworkCalls == { i \in 1..Len(trace) : trace[i].op \in NetworkOps }
\* the place of a network call in the order feed, backend, notification
NetworkRank(op) ==
    CASE op = "feedparser.parse" -> 1
      [] op \in BackendOps -> 2
      [] OTHER -> 3

\* C8 as stated: the network calls of a run are the feed fetch, then at most
\* one generation backend call, then at most one notification call.
C8_AtMostOneBackendCall ==
    /\ \A i, j \in NetworkCalls : i < j => NetworkRank(trace[i].op) <= NetworkRank(trace[j].op)
    /\ Cardinality({ i \in NetworkCalls : trace[i].op \in BackendOps }) <= 1
    /\ Cardinality(Positions("requests.post")) <= 1
    /\ Cardinality(Positions("feedparser.parse")) <= 1

\* C8 amended: the network calls of a run are the feed fetch, then at most one
\* call of each generation backend (the primary's first, the secondary's only
\* after the primary stage failed), then at most one notification call.
C8_AtMostOneCallPerBackend ==
    /\ \A i, j \in NetworkCalls : i < j => NetworkRank(trace[i].op) <= NetworkRank(trace[j].op)
    /\ Cardinality(Positions("generate_content")) <= 1
    /\ Cardinality(Positions("messages.create")) <= 1
    /\ \A i \in Positions("messages.create") :
          \E j \in Positions("summarize_with_gemini") :
              j < i /\ trace[j].outcome \in StageFailures
    /\ \A i \in Positions("messages.create") : \A j \in Positions("generate_content") : j < i
    /\ Cardinality(Positions("requests.post")) <= 1
    /\ Cardinality(Positions("feedparser.parse")) <= 1

\* C8 witness: a run that called both generation backends and then posted one
\* notification.
C8_Witness ==
    /\ Ended("generate_content")
    /\ Ended("messages.create")
    /\ Ended("requests.post")
    /\ pc = "done"

Entries(data) ==
    { data.top_topics[i] : i \in 1..Len(data.top_topics) }
    \cup UNION { { data.categories[c][i] : i \in 1..Len(data.categories[c]) } :
                 c \in DOMAIN data.categories }

\* the invariants of a canonical summary for the article list arts
Canonical(data, arts) ==
    /\ { "daily_trend", "categories", "top_topics" } \subseteq DOMAIN data
    /\ DOMAIN data.categories = CategorySet
    /\ \A e \in Entries(data) :
          /\ IsInt(e.index) /\ e.index.int \in 1..Len(arts)
          /\ IsInt(e.importance) /\ e.importance.int \in 1..5
    /\ Len(data.top_topics) <= 5
    /\ "summary" \in DOMAIN data.daily_trend
    /\ data.daily_trend.summary # PyNone

\* C9 as stated: whichever stage produced it, the value the chain returns
\* satisfies the invariants of a canonical summary.
C9_ChainResultIsCanonical ==
    producer # "none" => Canonical(summary_data, articles)

\* C9 amended: the keyword classifier's result satisfies the invariants of a
\* canonical summary; of an object a remote stage returns only the presence of
\* the daily_trend key is ensured (its categories, indices, importances,
\* top_topics and a daily_trend the backend supplied are returned as parsed).
C9_OnlyDailyTrendIsEnsured ==
    /\ producer = "fallback_categorize" => Canonical(summary_data, articles)
    /\ producer \in { "summarize_with_gemini", "summarize_with_anthropic" } =>
            /\ "daily_trend" \in DOMAIN summary_data
            /\ ~Contains(TextOf(IF producer = "summarize_with_gemini"
                                THEN "generate_content" ELSE "messages.create"), << "Dt" >>)
               /\ ~Contains(TextOf(IF producer = "summarize_with_gemini"
                                   THEN "generate_content" ELSE "messages.create"), << "DtNl" >>)
               /\ ~Contains(TextOf(IF producer = "summarize_with_gemini"
                                   THEN "generate_content" ELSE "messages.create"), << "DtNull" >>)
               => summary_data.daily_trend =
                      [summary |-> PyStr("TREND_NOT_OBTAINED"), keywords |-> <<>>]

\* C9 witness: a remote stage returned an object that had no daily_trend and
\* no top_topics; main holds it with the placeholder daily_trend added.
C9_Witness ==
    /\ producer = "summarize_with_gemini"
    /\ summary_data.daily_trend.summary = PyStr("TREND_NOT_OBTAINED")
    /\ "top_topics" \notin DOMAIN summary_data
    /\ "categories" \in DOMAIN summary_data

\* C10: the two remote stages normalise a response text alike: for every raw
\* text either both fail or both give the same parsed summary.
C10_SameNormalization ==
    pc = "normalized" =>
        \/ normalized.gemini.status # "ok" /\ normalized.anthropic.status # "ok"
        \/ /\ normalized.gemini.status = "ok"
           /\ normalized.anthropic.status = "ok"
           /\ normalized.gemini.value = normalized.anthropic.value

====
